---- MODULE Spec2Model ----
(***************************************************************************)
(* Notely: the note service layer (src/src/services.py), its model         *)
(* (src/src/models.py), the storage session (src/src/db.py), the HTTP      *)
(* status the API routes answer with (src/src/app.py) and the CLI          *)
(* export / import commands (src/src/cli.py).                              *)
(*                                                                         *)
(* A string is a sequence of one-character strings.  The store is a        *)
(* function from the ids of the stored rows to the rows.                   *)
(***************************************************************************)
EXTENDS Integers, Sequences, FiniteSets, TLC

VARIABLES notes, clock, last, export_file, sessions

vars == <<notes, clock, last, export_file, sessions>>

(***************************************************************************)
(* Bounds of the model.                                                    *)
(***************************************************************************)
MaxNotes == 2
MaxId == 3
MaxClock == 1
MaxClients == 2

(***************************************************************************)
(* Characters and strings.                                                 *)
(***************************************************************************)
\* The characters of the model, in code-point order (Python compares
\* strings by code point).
CharOrder ==
  << " ", "%", ",", "0", "1", "2", "3", "4", "5", "6", "7", "8", "9",
     "A", "B", "[", "]", "_", "a", "b" >>

Ord(c) == CHOOSE i \in 1..Len(CharOrder) : CharOrder[i] = c

Digits == << "0", "1", "2", "3", "4", "5", "6", "7", "8", "9" >>

IsDigitChar(c) == \E i \in 1..Len(Digits) : Digits[i] = c

DigitVal(c) == (CHOOSE i \in 1..Len(Digits) : Digits[i] = c) - 1

\* str.isdigit(): non-empty and every character a digit.
isdigit(s) == s # << >> /\ \A i \in 1..Len(s) : IsDigitChar(s[i])

\* int(s) of a digit string.
RECURSIVE int_of(_)
int_of(s) ==
  IF s = << >> THEN 0
  ELSE 10 * int_of(SubSeq(s, 1, Len(s) - 1)) + DigitVal(s[Len(s)])

\* str(n) of a non-negative integer.
RECURSIVE str_of(_)
str_of(n) ==
  IF n < 10 THEN << Digits[n + 1] >>
  ELSE str_of(n \div 10) \o << Digits[(n % 10) + 1] >>

\* str.lower() on one character.
LowerChar(c) == CASE c = "A" -> "a" [] c = "B" -> "b" [] OTHER -> c

lower(s) == [i \in 1..Len(s) |-> LowerChar(s[i])]

IsSpace(c) == c = " "

\* str.strip(): drop leading and trailing whitespace.
RECURSIVE lstrip(_)
lstrip(s) ==
  IF s # << >> /\ IsSpace(Head(s)) THEN lstrip(Tail(s)) ELSE s

RECURSIVE rstrip(_)
rstrip(s) ==
  IF s # << >> /\ IsSpace(s[Len(s)]) THEN rstrip(SubSeq(s, 1, Len(s) - 1)) ELSE s

strip(s) == rstrip(lstrip(s))

\* a < b in Python's string order.
RECURSIVE StrLess(_, _)
StrLess(a, b) ==
  IF b = << >> THEN FALSE
  ELSE IF a = << >> THEN TRUE
  ELSE IF Head(a) = Head(b) THEN StrLess(Tail(a), Tail(b))
  ELSE Ord(Head(a)) < Ord(Head(b))

\* sorted(S) of a set of strings.
RECURSIVE sorted(_)
sorted(S) ==
  IF S = {} THEN << >>
  ELSE LET m == CHOOSE x \in S : \A y \in S : x = y \/ StrLess(x, y)
       IN  << m >> \o sorted(S \ {m})

\* ",".join(parts)
RECURSIVE join(_)
join(parts) ==
  IF parts = << >> THEN << >>
  ELSE IF Len(parts) = 1 THEN parts[1]
  ELSE parts[1] \o << "," >> \o join(Tail(parts))

\* s.split(",")
RECURSIVE split(_)
split(s) ==
  IF \A i \in 1..Len(s) : s[i] # "," THEN << s >>
  ELSE LET i == CHOOSE k \in 1..Len(s) :
                  s[k] = "," /\ \A j \in 1..(k - 1) : s[j] # ","
       IN  << SubSeq(s, 1, i - 1) >> \o split(SubSeq(s, i + 1, Len(s)))

Range(q) == {q[i] : i \in 1..Len(q)}

\* An optional argument: {} is None, {v} is the value v.
Opt(S) == {{}} \cup {{v} : v \in S}

IsNone(o) == o = {}

Val(o) == CHOOSE v \in o : TRUE

(***************************************************************************)
(* Tags: services._normal_tags, Note.set_tags, Note.tags.                  *)
(***************************************************************************)
\* The comprehension without .lower().
NormSet_keeping_case(tags) ==
  {strip(tags[i]) : i \in {k \in 1..Len(tags) :
                             tags[k] # << >> /\ strip(tags[k]) # << >>}}

\* sorted({t.strip().lower() for t in tags if t and t.strip()})
NormSet(tags) ==
  {lower(strip(tags[i])) : i \in {k \in 1..Len(tags) :
                                    tags[k] # << >> /\ strip(tags[k]) # << >>}}

\* tags is an optional list of strings.
_normal_tags(tags) ==
  IF IsNone(tags) \/ Val(tags) = << >> THEN << >>
  ELSE sorted(NormSet(Val(tags)))

\* Note.set_tags: the value of tags_csv it stores.
set_tags(tags) ==
  IF tags = << >> THEN << >>
  ELSE join(sorted(NormSet(tags)))

\* Note.tags: the list read back from tags_csv.
tags_of(tags_csv) ==
  IF tags_csv = << >> THEN << >>
  ELSE SelectSeq(split(tags_csv), LAMBDA t : t # << >>)

(***************************************************************************)
(* SQL LIKE as SQLite evaluates it (db.py opens a sqlite:/// engine): "%"  *)
(* matches any run of characters, "_" any one character, and ASCII         *)
(* letters match without regard to case.                                   *)
(***************************************************************************)
RECURSIVE like(_, _)
like(pat, s) ==
  IF pat = << >> THEN s = << >>
  ELSE IF Head(pat) = "%"
       THEN like(Tail(pat), s) \/ (s # << >> /\ like(pat, Tail(s)))
       ELSE /\ s # << >>
            /\ (Head(pat) = "_" \/ LowerChar(Head(pat)) = LowerChar(Head(s)))
            /\ like(Tail(pat), Tail(s))

(***************************************************************************)
(* The store.                                                              *)
(***************************************************************************)
Ids == DOMAIN notes

\* An identifier is an int or a string.
IntId(n) == [isint |-> TRUE, n |-> n, s |-> << >>]

StrId(s) == [isint |-> FALSE, n |-> 0, s |-> s]

\* str(identifier)
str(identifier) ==
  IF identifier.isint THEN str_of(identifier.n) ELSE identifier.s

\* int(identifier)
int(identifier) ==
  IF identifier.isint THEN identifier.n ELSE int_of(identifier.s)

\* get_note with the title looked up before the id.
get_note_title_first(store, identifier) ==
  IF \E i \in DOMAIN store : store[i].title = str(identifier)
  THEN {i \in DOMAIN store : store[i].title = str(identifier)}
  ELSE IF /\ identifier.isint \/ isdigit(str(identifier))
          /\ int(identifier) \in DOMAIN store
       THEN {int(identifier)}
       ELSE {}

\* The rows get_note can return: the row with that id when the identifier
\* is numeric and the id is stored, else the rows whose title is
\* str(identifier); .first() returns one of them (the query has no ORDER
\* BY), or None when there is none.
get_note(store, identifier) ==
  IF /\ identifier.isint \/ isdigit(str(identifier))
     /\ int(identifier) \in DOMAIN store
  THEN {int(identifier)}
  ELSE {i \in DOMAIN store : store[i].title = str(identifier)}

\* The outcomes of one call of get_note: {} is None, {i} the row i.
Found(store, identifier) ==
  IF get_note(store, identifier) = {} THEN {{}}
  ELSE {{i} : i \in get_note(store, identifier)}

\* The id the storage engine assigns to a new row (SQLite's INTEGER
\* PRIMARY KEY without AUTOINCREMENT: one more than the largest id stored).
NewId(store) ==
  IF DOMAIN store = {} THEN 1
  ELSE 1 + (CHOOSE m \in DOMAIN store : \A i \in DOMAIN store : i <= m)

\* The HTTP status the API route wrapping a service call answers with: only
\* api_create_note catches ValueError (400); api_get_note answers 404 for
\* None; an exception no route catches is answered 500.
api_status(op, err, target) ==
  IF err = "ValueError" THEN (IF op = "create" THEN 400 ELSE 500)
  ELSE IF op = "create" THEN 201
  ELSE IF op = "get" /\ target = {} THEN 404
  ELSE 200

Call(op, identifier, flag, target, err, out) ==
  [op |-> op, ident |-> identifier, flag |-> flag, target |-> target,
   err |-> err, out |-> out, http |-> api_status(op, err, target)]

\* The clients of the store (API requests, CLI processes), each running
\* at most one service call at a time.
Clients == 1..MaxClients

\* A client between calls.
Idle == [pc |-> "idle"]

Init ==
  /\ notes = << >>
  /\ clock = 0
  /\ last = Call("init", IntId(0), FALSE, {}, "", {})
  /\ export_file = {}
  /\ sessions = [c \in Clients |-> Idle]

\* Time passes: the next datetime.now(UTC) reads a later instant.
Tick ==
  /\ clock < MaxClock
  /\ clock' = clock + 1
  /\ UNCHANGED <<notes, last, export_file, sessions>>

\* One new row: Note(title, content) reads the clock once for created_at
\* and once more for updated_at; set_tags; add, flush, commit.
Insert(store, title, content, tags, t1, t2) ==
  LET id == NewId(store)
      row == [title |-> title, content |-> content,
              tags_csv |-> set_tags(_normal_tags(tags)),
              pinned |-> FALSE, archived |-> FALSE,
              created_at |-> t1, updated_at |-> t2]
  IN  [i \in DOMAIN store \cup {id} |-> IF i = id THEN row ELSE store[i]]

create_note(title, content, tags) ==
  /\ Cardinality(Ids) < MaxNotes
  /\ NewId(notes) <= MaxId
  /\ \E t2 \in {t \in {clock, clock + 1} : t <= MaxClock} :
       /\ notes' = Insert(notes, title, content, tags, clock, t2)
       /\ clock' = t2
  /\ last' = Call("create", IntId(NewId(notes)), FALSE, {NewId(notes)}, "",
                  {NewId(notes)})
  /\ UNCHANGED <<export_file, sessions>>

\* A call of get_note by a client (cli show, GET /api/notes/{identifier}).
show(identifier) ==
  /\ \E found \in Found(notes, identifier) :
       last' = Call("get", identifier, FALSE, found, "", found)
  /\ UNCHANGED <<notes, clock, export_file, sessions>>

\* edit_note stamping created_at as well.
Edited_restamped(row, title, content, tags, archived, pinned, now) ==
  [title |-> IF IsNone(title) THEN row.title ELSE Val(title),
   content |-> IF IsNone(content) THEN row.content ELSE Val(content),
   tags_csv |-> IF IsNone(tags) THEN row.tags_csv
                ELSE set_tags(_normal_tags(tags)),
   pinned |-> IF IsNone(pinned) THEN row.pinned ELSE Val(pinned),
   archived |-> IF IsNone(archived) THEN row.archived ELSE Val(archived),
   created_at |-> now,
   updated_at |-> now]

\* The row after edit_note's assignments: a field is overwritten when its
\* argument is not None; updated_at is always set to now.
Edited(row, title, content, tags, archived, pinned, now) ==
  [title |-> IF IsNone(title) THEN row.title ELSE Val(title),
   content |-> IF IsNone(content) THEN row.content ELSE Val(content),
   tags_csv |-> IF IsNone(tags) THEN row.tags_csv
                ELSE set_tags(_normal_tags(tags)),
   pinned |-> IF IsNone(pinned) THEN row.pinned ELSE Val(pinned),
   archived |-> IF IsNone(archived) THEN row.archived ELSE Val(archived),
   created_at |-> row.created_at,
   updated_at |-> now]

edit_note(identifier, title, content, tags, archived, pinned) ==
  /\ \E found \in Found(notes, identifier) :
       IF found = {}
       THEN /\ notes' = notes
            /\ last' = Call("edit", identifier, FALSE, {}, "ValueError", {})
       ELSE LET id == Val(found) IN
            /\ notes' = [notes EXCEPT ![id] =
                 Edited(notes[id], title, content, tags, archived, pinned, clock)]
            /\ last' = Call("edit", identifier, FALSE, found, "", found)
  /\ UNCHANGED <<clock, export_file, sessions>>

\* delete_note archiving the row whatever hard is.
Deleted_never_hard(store, id, hard, now) ==
  [store EXCEPT ![id].archived = TRUE, ![id].updated_at = now]

\* The store after delete_note found the row id.
Deleted(store, id, hard, now) ==
  IF hard THEN [i \in DOMAIN store \ {id} |-> store[i]]
  ELSE [store EXCEPT ![id].archived = TRUE, ![id].updated_at = now]

\* delete_note raising, as edit_note does, when nothing is found.
Delete_raising(op, identifier, hard) ==
  /\ \E found \in Found(notes, identifier) :
       /\ notes' = IF found = {} THEN notes
                   ELSE Deleted(notes, Val(found), hard, clock)
       /\ last' = Call(op, identifier, hard, found,
                       IF found = {} THEN "ValueError" ELSE "", {})
  /\ UNCHANGED <<clock, export_file, sessions>>

\* delete_note, called as op ("delete", or "purge" through purge_note).
Delete(op, identifier, hard) ==
  /\ \E found \in Found(notes, identifier) :
       /\ notes' = IF found = {} THEN notes
                   ELSE Deleted(notes, Val(found), hard, clock)
       /\ last' = Call(op, identifier, hard, found, "", {})
  /\ UNCHANGED <<clock, export_file, sessions>>

delete_note(identifier, hard) == Delete("delete", identifier, hard)

purge_note(identifier) == Delete("purge", identifier, TRUE)

\* pin_note returning silently, as delete_note does, when nothing is found.
pin_note_silent(identifier, value) ==
  /\ \E found \in Found(notes, identifier) :
       IF found = {}
       THEN /\ notes' = notes
            /\ last' = Call("pin", identifier, value, {}, "", {})
       ELSE /\ notes' = [notes EXCEPT ![Val(found)].pinned = value,
                                      ![Val(found)].updated_at = clock]
            /\ last' = Call("pin", identifier, value, found, "", found)
  /\ UNCHANGED <<clock, export_file, sessions>>

pin_note(identifier, value) ==
  /\ \E found \in Found(notes, identifier) :
       IF found = {}
       THEN /\ notes' = notes
            /\ last' = Call("pin", identifier, value, {}, "ValueError", {})
       ELSE /\ notes' = [notes EXCEPT ![Val(found)].pinned = value,
                                      ![Val(found)].updated_at = clock]
            /\ last' = Call("pin", identifier, value, found, "", found)
  /\ UNCHANGED <<clock, export_file, sessions>>

\* archive_note clearing the pinned flag as well.
Archive_unpinning(op, identifier, value) ==
  /\ \E found \in Found(notes, identifier) :
       IF found = {}
       THEN /\ notes' = notes
            /\ last' = Call(op, identifier, value, {}, "ValueError", {})
       ELSE /\ notes' = [notes EXCEPT ![Val(found)].archived = value,
                                      ![Val(found)].pinned = FALSE,
                                      ![Val(found)].updated_at = clock]
            /\ last' = Call(op, identifier, value, found, "", found)
  /\ UNCHANGED <<clock, export_file, sessions>>

\* archive_note, called as op ("archive", or "restore" through restore_note).
Archive(op, identifier, value) ==
  /\ \E found \in Found(notes, identifier) :
       IF found = {}
       THEN /\ notes' = notes
            /\ last' = Call(op, identifier, value, {}, "ValueError", {})
       ELSE /\ notes' = [notes EXCEPT ![Val(found)].archived = value,
                                      ![Val(found)].updated_at = clock]
            /\ last' = Call(op, identifier, value, found, "", found)
  /\ UNCHANGED <<clock, export_file, sessions>>

archive_note(identifier, value) == Archive("archive", identifier, value)

restore_note(identifier) == Archive("restore", identifier, FALSE)

\* The pattern of backlinks_for's LIKE: f"%[[{title}]]%".
LinkPattern(title) ==
  << "%", "[", "[" >> \o title \o << "]", "]", "%" >>

\* The rows backlinks_for's query selects for a target titled title.
Backlinks(store, title, include_archived) ==
  {i \in DOMAIN store :
     /\ like(LinkPattern(title), store[i].content)
     /\ include_archived \/ ~store[i].archived}

backlinks_for(identifier, include_archived) ==
  /\ \E found \in Found(notes, identifier) :
       last' = Call("backlinks", identifier, include_archived, found, "",
                    IF found = {} THEN {}
                    ELSE Backlinks(notes, notes[Val(found)].title,
                                   include_archived))
  /\ UNCHANGED <<notes, clock, export_file, sessions>>

(***************************************************************************)
(* The service operations over the input alphabets of an environment E:    *)
(* E.titles, E.contents and E.taglists are the arguments of create_note,   *)
(* E.idents the identifiers of every operation, E.edit_titles,             *)
(* E.edit_contents, E.edit_taglists and E.edit_flags the optional          *)
(* arguments of edit_note.                                                 *)
(***************************************************************************)
Service(E) ==
  \/ Tick
  \/ \E t \in E.titles, c \in E.contents, g \in E.taglists :
       create_note(t, c, g)
  \/ \E i \in E.idents : show(i)
  \/ \E i \in E.idents, t \in E.edit_titles, c \in E.edit_contents,
        g \in E.edit_taglists, a \in E.edit_flags, p \in E.edit_flags :
       edit_note(i, t, c, g, a, p)
  \/ \E i \in E.idents, h \in BOOLEAN : delete_note(i, h)
  \/ \E i \in E.idents : purge_note(i)
  \/ \E i \in E.idents, v \in BOOLEAN : pin_note(i, v)
  \/ \E i \in E.idents, v \in BOOLEAN : archive_note(i, v)
  \/ \E i \in E.idents : restore_note(i)
  \/ \E i \in E.idents, a \in BOOLEAN : backlinks_for(i, a)

\* Identifier resolution: a title that is a digit string, and identifiers
\* that are an int, a digit string and a title.
EnvIds ==
  [titles |-> { <<"B">>, <<"1">> },
   contents |-> { << >> },
   taglists |-> { {} },
   idents |-> { IntId(1), StrId(<<"1">>), StrId(<<"B">>) },
   edit_titles |-> Opt({ <<"B">>, <<"1">> }),
   edit_contents |-> { {} },
   edit_taglists |-> { {} },
   edit_flags |-> { {} }]

NextIds == Service(EnvIds)

SpecIds == Init /\ [][NextIds]_vars

(***************************************************************************)
(* Identifier resolution (SpecIds).                                        *)
(***************************************************************************)
\* The identifier is an int or a digit string.
Numeric(identifier) == identifier.isint \/ isdigit(str(identifier))

\* The stored rows whose title is exactly str(identifier).
Titled(identifier) == {i \in Ids : notes[i].title = str(identifier)}

DeletedById ==
  /\ last.op \in {"delete", "purge"}
  /\ Numeric(last.ident)
  /\ last.target = {int(last.ident)}

MustExistCall(E, i) ==
  \/ \E t \in E.edit_titles, c \in E.edit_contents, g \in E.edit_taglists,
        a \in E.edit_flags, p \in E.edit_flags : edit_note(i, t, c, g, a, p)
  \/ \E v \in BOOLEAN : pin_note(i, v)
  \/ \E v \in BOOLEAN : archive_note(i, v)
  \/ restore_note(i)

\* C5: edit, pin, archive and restore called with an identifier that
\* resolves to no note fail with the not-found error (the ValueError the
\* service raises), and the store is the same after the call as before.
C5_NotFoundLeavesStore ==
  [][\A i \in EnvIds.idents :
       (get_note(notes, i) = {} /\ MustExistCall(EnvIds, i)) =>
          /\ last'.err = "ValueError"
          /\ notes' = notes]_vars

\* A failed call on a store that holds a note.
C5_Witness ==
  /\ last.op \in {"edit", "pin", "archive", "restore"}
  /\ last.err = "ValueError"
  /\ Ids # {}

\* A call of delete_note or purge_note with the identifier i.
MayMissCall(i) ==
  \/ \E h \in BOOLEAN : delete_note(i, h)
  \/ purge_note(i)

C8_NotFoundIs404 ==
  /\ (last.op \in {"edit", "pin", "archive", "restore"} /\ last.err # "")
        => last.http = 404
  /\ (last.op = "create" /\ last.err # "") => last.http = 400

(***************************************************************************)
(* Tags (SpecTags): tag strings with upper-case letters, surrounding       *)
(* whitespace, commas, duplicates and the empty string.                    *)
(***************************************************************************)
EnvTags ==
  [titles |-> { <<"B">> },
   contents |-> { << >> },
   taglists |-> { {}, { << <<"b", ",", "a">> >> },
                  { << <<" ", "A", " ">>, <<"a">>, << >>, <<" ">> >> } },
   idents |-> { IntId(1), IntId(2) },
   edit_titles |-> { {} },
   edit_contents |-> Opt({ << >> }),
   edit_taglists |-> Opt({ << >>, << <<"B">>, <<"b", ",", "a">> >> }),
   edit_flags |-> Opt(BOOLEAN)]

NextTags == Service(EnvTags)

SpecTags == Init /\ [][NextTags]_vars

\* A tag list is normalized: every element non-empty after trimming,
\* trimmed, lower-cased, no duplicates, in sorted order.
Normalized(tags) ==
  /\ \A i \in 1..Len(tags) :
       /\ strip(tags[i]) # << >>
       /\ lower(tags[i]) = tags[i]
  /\ \A i, j \in 1..Len(tags) : i < j => StrLess(tags[i], tags[j])

\* C3: in every state reachable by create and edit calls with arbitrary
\* tag strings, the tags read back from every stored note are normalized.
C3_StoredTagsNormalized ==
  \A i \in Ids : Normalized(tags_of(notes[i].tags_csv))

\* C7: get(create(title, content, tags).id) returns a note whose title
\* and content equal the inputs and whose tags equal normalize(tags).
C7_CreateGetRoundTrip ==
  [][\A t \in EnvTags.titles, c \in EnvTags.contents,
        g \in EnvTags.taglists :
       create_note(t, c, g) =>
          LET id == NewId(notes) IN
          /\ get_note(notes', IntId(id)) = {id}
          /\ notes'[id].title = t
          /\ notes'[id].content = c
          /\ tags_of(notes'[id].tags_csv) = _normal_tags(g)]_vars

\* What C4 says of an edit of the row id: the provided attributes are
\* overwritten, the others, id and created_at and the other rows are left,
\* and updated_at does not decrease.
EditFrame(id, title, content, tags, archived, pinned) ==
  /\ DOMAIN notes' = Ids
  /\ \A j \in Ids \ {id} : notes'[j] = notes[j]
  /\ notes'[id].title = IF IsNone(title) THEN notes[id].title ELSE Val(title)
  /\ notes'[id].content =
        IF IsNone(content) THEN notes[id].content ELSE Val(content)
  /\ tags_of(notes'[id].tags_csv) =
        IF IsNone(tags) THEN tags_of(notes[id].tags_csv)
        ELSE _normal_tags(tags)
  /\ notes'[id].pinned = IF IsNone(pinned) THEN notes[id].pinned ELSE Val(pinned)
  /\ notes'[id].archived =
        IF IsNone(archived) THEN notes[id].archived ELSE Val(archived)
  /\ notes'[id].created_at = notes[id].created_at
  /\ notes'[id].updated_at >= notes[id].updated_at

\* C4: edit on an existing note overwrites exactly the attributes that
\* were provided (tags after normalization; an empty string or list counts
\* as provided) and leaves the attributes not provided, id, created_at and
\* every other stored note unchanged; updated_at does not decrease.
C4_EditOverwritesProvided ==
  [][\A i \in EnvTags.idents, t \in EnvTags.edit_titles,
        c \in EnvTags.edit_contents, g \in EnvTags.edit_taglists,
        a \in EnvTags.edit_flags, p \in EnvTags.edit_flags :
       (get_note(notes, i) # {} /\ edit_note(i, t, c, g, a, p)) =>
          \E id \in get_note(notes, i) : EditFrame(id, t, c, g, a, p)]_vars

(***************************************************************************)
(* Backlinks (SpecLinks): titles that differ only in case, and a content   *)
(* with a [[B]] marker.                                                    *)
(***************************************************************************)
EnvLinks ==
  [titles |-> { <<"B">>, <<"b">> },
   contents |-> { << >>, <<"[", "[", "B", "]", "]">> },
   taglists |-> { {} },
   idents |-> { StrId(<<"B">>), StrId(<<"b">>), IntId(2) },
   edit_titles |-> { {} },
   edit_contents |-> { {} },
   edit_taglists |-> { {} },
   edit_flags |-> { {} }]

NextLinks == Service(EnvLinks)

SpecLinks == Init /\ [][NextLinks]_vars

\* sub occurs in s as a literal, case-sensitive substring.
Contains(s, sub) ==
  \E k \in 0..(Len(s) - Len(sub)) : SubSeq(s, k + 1, k + Len(sub)) = sub

\* C10: backlinksFor returns the empty sequence when the identifier
\* resolves to no note; otherwise exactly the stored notes whose content
\* contains, as a case-sensitive literal substring, the target's exact
\* title wrapped in double brackets, restricted to the non-archived notes
\* unless includeArchived is true.
C10_BacklinksExactTitle ==
  last.op = "backlinks" =>
     IF last.target = {} THEN last.out = {}
     ELSE last.out =
            {i \in Ids :
               /\ Contains(notes[i].content,
                           <<"[", "[">> \o notes[Val(last.target)].title
                                        \o <<"]", "]">>)
               /\ last.flag \/ ~notes[i].archived}

(***************************************************************************)
(* list_notes, and the CLI's export and import_ (SpecCli).                 *)
(***************************************************************************)
\* list_notes without the archived filter.
Listed_with_archived(store, tag, search, include_archived) ==
  {i \in DOMAIN store :
     /\ \/ IsNone(tag) \/ Val(tag) = << >>
        \/ like(<<"%">> \o lower(strip(Val(tag))) \o <<"%">>,
                store[i].tags_csv)
     /\ \/ IsNone(search) \/ Val(search) = << >>
        \/ like(<<"%">> \o Val(search) \o <<"%">>, store[i].title)
        \/ like(<<"%">> \o Val(search) \o <<"%">>, store[i].content)}

\* The rows list_notes' WHERE clauses select; tag and search are optional
\* strings, and an empty string is no filter.
Listed(store, tag, search, include_archived) ==
  {i \in DOMAIN store :
     /\ include_archived \/ ~store[i].archived
     /\ \/ IsNone(tag) \/ Val(tag) = << >>
        \/ like(<<"%">> \o lower(strip(Val(tag))) \o <<"%">>,
                store[i].tags_csv)
     /\ \/ IsNone(search) \/ Val(search) = << >>
        \/ like(<<"%">> \o Val(search) \o <<"%">>, store[i].title)
        \/ like(<<"%">> \o Val(search) \o <<"%">>, store[i].content)}

\* An ORDER BY that ignores the sort key.
InOrder_unsorted(store, sort, i, j) == TRUE

\* Row i may come before row j under list_notes' ORDER BY.
InOrder(store, sort, i, j) ==
  IF sort = "created" THEN store[i].created_at >= store[j].created_at
  ELSE IF sort = "title"
       THEN store[i].title = store[j].title
            \/ StrLess(store[i].title, store[j].title)
       ELSE store[i].updated_at >= store[j].updated_at

\* The sequences of ids list_notes can return: the selected rows in an
\* order the sort key allows (rows with equal keys come in any order).
list_notes(store, tag, search, include_archived, sort) ==
  LET S == Listed(store, tag, search, include_archived) IN
  {q \in [1..Cardinality(S) -> S] :
     /\ \A a, b \in 1..Cardinality(S) : a # b => q[a] # q[b]
     /\ \A a, b \in 1..Cardinality(S) :
          a < b => InOrder(store, sort, q[a], q[b])}

\* The JSON object export writes for a row.
Item(store, i) ==
  [id |-> i, title |-> store[i].title, content |-> store[i].content,
   tags |-> tags_of(store[i].tags_csv), pinned |-> store[i].pinned,
   archived |-> store[i].archived, created_at |-> store[i].created_at,
   updated_at |-> store[i].updated_at]

\* cli export: the notes of list_notes(include_archived=True), written to
\* the file.
export ==
  /\ \E q \in list_notes(notes, {}, {}, TRUE, "updated") :
       export_file' = { [k \in 1..Len(q) |-> Item(notes, q[k])] }
  /\ last' = Call("export", IntId(0), TRUE, {}, "", Ids)
  /\ UNCHANGED <<notes, clock, sessions>>

\* NOTELY_DB_PATH names a new file: get_engine swaps the engine and
\* init_db creates the empty table.
fresh_db ==
  /\ notes' = << >>
  /\ last' = Call("fresh_db", IntId(0), FALSE, {}, "", {})
  /\ UNCHANGED <<clock, export_file, sessions>>

\* The store after create_note was called for each item in turn, the
\* k-th call reading the clock as reads[2k-1] and reads[2k].
RECURSIVE Imported(_, _, _)
Imported(store, items, reads) ==
  IF items = << >> THEN store
  ELSE Imported(Insert(store, Head(items).title, Head(items).content,
                       {Head(items).tags}, reads[1], reads[2]),
                Tail(items), Tail(Tail(reads)))

\* cli import_: create_note(title, content, tags) for each item of the
\* file; flag records whether the store was empty before.
import_ ==
  /\ export_file # {}
  /\ LET items == Val(export_file) IN
     /\ Cardinality(Ids) + Len(items) <= MaxNotes
     /\ NewId(notes) + Len(items) <= MaxId + 1
     /\ \E reads \in [1..(2 * Len(items)) -> clock..MaxClock] :
          /\ \A a, b \in 1..(2 * Len(items)) : a < b => reads[a] <= reads[b]
          /\ notes' = Imported(notes, items, reads)
          /\ clock' = IF items = << >> THEN clock
                      ELSE reads[2 * Len(items)]
     /\ last' = Call("import", IntId(0), Ids = {}, {}, "",
                     DOMAIN notes' \ Ids)
  /\ UNCHANGED <<export_file, sessions>>

\* A backup and restore through the CLI: notes are created, pinned and
\* archived, exported, and imported into the same or a new store.
EnvCli ==
  [titles |-> { <<"B">> },
   contents |-> { << >> },
   taglists |-> { {} },
   idents |-> { IntId(1), IntId(2) }]

NextCli ==
  \/ Tick
  \/ \E t \in EnvCli.titles, c \in EnvCli.contents, g \in EnvCli.taglists :
       create_note(t, c, g)
  \/ \E i \in EnvCli.idents, v \in BOOLEAN : pin_note(i, v)
  \/ \E i \in EnvCli.idents, v \in BOOLEAN : archive_note(i, v)
  \/ export
  \/ fresh_db
  \/ import_

SpecCli == Init /\ [][NextCli]_vars

\* The item reappears as the row: same title, content, tags, pinned and
\* archived flags and timestamps.
SameNote(item, row) ==
  /\ row.title = item.title
  /\ row.content = item.content
  /\ tags_of(row.tags_csv) = item.tags
  /\ row.pinned = item.pinned
  /\ row.archived = item.archived
  /\ row.created_at = item.created_at
  /\ row.updated_at = item.updated_at

\* C9: export followed by import of the exported file into an empty store
\* round-trips the note set: the store holds as many notes as were
\* exported, and each exported note reappears with the same title,
\* content, tags, pinned flag, archived flag and timestamps.
C9_ExportImportRoundTrip ==
  (last.op = "import" /\ last.flag) =>
     LET items == Val(export_file) IN
     /\ Cardinality(Ids) = Len(items)
     /\ \E f \in [1..Len(items) -> Ids] :
          /\ \A a, b \in 1..Len(items) : a # b => f[a] # f[b]
          /\ \A a \in 1..Len(items) : SameNote(items[a], notes[f[a]])

(***************************************************************************)
(* Listing (SpecList): the service operations and the list command, over   *)
(* notes with two titles and the tag "a".                                  *)
(***************************************************************************)
\* The list command: list_notes with the given filters and sort key; the
\* rows come back in one of the orders the ORDER BY allows.
_list(tag, search, include_archived, sort) ==
  /\ \E q \in list_notes(notes, tag, search, include_archived, sort) :
       last' = [op |-> "list", tag |-> tag, search |-> search,
                flag |-> include_archived, sort |-> sort, rows |-> q,
                err |-> "", http |-> 200]
  /\ UNCHANGED <<notes, clock, export_file, sessions>>

EnvList ==
  [titles        |-> {<<"B">>, <<"a">>},
   contents      |-> {<< >>},
   taglists      |-> {{<<(<<"a">>)>>}},
   idents        |-> {IntId(1), StrId(<<"B">>)},
   edit_titles   |-> {{}},
   edit_contents |-> {{}},
   edit_taglists |-> {{}},
   edit_flags    |-> Opt({TRUE}),
   list_tags     |-> Opt({<<"_">>, <<"A", " ">>, <<"b">>}),
   list_searches |-> {{}},
   sorts         |-> {"updated", "created", "title"}]

NextList ==
  \/ Service(EnvList)
  \/ \E g \in EnvList.list_tags, q \in EnvList.list_searches,
        a \in BOOLEAN, o \in EnvList.sorts : _list(g, q, a, o)

SpecList == Init /\ [][NextList]_vars

\* C11: list(tag=x) returns exactly the non-archived notes (all notes when
\* archived ones are asked for) whose serialized tags contain the trimmed,
\* lower-cased x as a substring.
C11_TagFilterIsSubstring ==
  (last.op = "list" /\ ~IsNone(last.tag) /\ IsNone(last.search)) =>
    Range(last.rows) =
      {i \in Ids : /\ last.flag \/ ~notes[i].archived
                   /\ Contains(notes[i].tags_csv,
                               lower(strip(Val(last.tag))))}

\* C12: list() with no filters returns exactly the stored notes with
\* archived = FALSE, and list(include_archived = TRUE) exactly all the
\* stored notes; a purged note is in neither.
C12_UnfilteredListIsStore ==
  (last.op = "list" /\ IsNone(last.tag) /\ IsNone(last.search)) =>
    /\ Len(last.rows) = Cardinality(Range(last.rows))
    /\ Range(last.rows) =
         IF last.flag THEN Ids ELSE {i \in Ids : ~notes[i].archived}

C12_Witness ==
  /\ last.op = "list" /\ IsNone(last.tag) /\ IsNone(last.search)
  /\ ~last.flag
  /\ last.rows # << >>
  /\ \E i \in Ids : notes[i].archived

\* C13: the rows list returns are ordered by the sort key (non-increasing
\* updated_at by default, non-increasing created_at for "created",
\* non-decreasing title for "title"), and every sort key returns the same
\* set of rows.
C13_ListIsSorted ==
  /\ last.op = "list" =>
       \A a, b \in 1..Len(last.rows) :
         a < b =>
           LET x == notes[last.rows[a]]
               y == notes[last.rows[b]] IN
           CASE last.sort = "created" -> x.created_at >= y.created_at
             [] last.sort = "title"   -> ~StrLess(y.title, x.title)
             [] OTHER                 -> x.updated_at >= y.updated_at
  /\ \A g \in EnvList.list_tags, a \in BOOLEAN, o \in EnvList.sorts :
       {Range(q) : q \in list_notes(notes, g, {}, a, o)} =
         {Listed(notes, g, {}, a)}

C13_Witness ==
  /\ last.op = "list" /\ last.sort = "title"
  /\ Len(last.rows) = 2
  /\ notes[last.rows[1]].title # notes[last.rows[2]].title
  /\ notes[last.rows[1]].updated_at < notes[last.rows[2]].updated_at

(***************************************************************************)
(* Rows over time (SpecIds): what create writes, and what the flag and     *)
(* edit operations leave alone.                                            *)
(***************************************************************************)
\* C14: create adds exactly one row and changes no existing row; the new
\* row's id is the id of no note stored before, it is neither pinned nor
\* archived, and its created_at equals its updated_at.
C14_CreateAddsOneFreshRow ==
  [][\A t \in EnvIds.titles, c \in EnvIds.contents, g \in EnvIds.taglists :
       create_note(t, c, g) =>
         \E id \in DOMAIN notes' \ DOMAIN notes :
           /\ DOMAIN notes' = DOMAIN notes \cup {id}
           /\ \A i \in DOMAIN notes : notes'[i] = notes[i]
           /\ ~notes'[id].pinned
           /\ ~notes'[id].archived
           /\ notes'[id].created_at = notes'[id].updated_at]_vars

\* A call of edit, pin, archive, restore or soft delete with identifier i.
KeepingCall(E, i) == MustExistCall(E, i) \/ delete_note(i, FALSE)

\* C15: every stored note has updated_at >= created_at, and edit, pin,
\* archive, restore and soft delete keep every note's id and created_at.
\* (A call records its identifier in last, so the call of a step is looked
\* for under that identifier only.)
C15_CreatedAtIsFixed ==
  [][/\ \A i \in DOMAIN notes' :
          notes'[i].updated_at >= notes'[i].created_at
     /\ ( /\ last'.op \in {"edit", "pin", "archive", "restore", "delete"}
          /\ KeepingCall(EnvIds, last'.ident) ) =>
            /\ DOMAIN notes' = DOMAIN notes
            /\ \A j \in DOMAIN notes :
                 notes'[j].created_at = notes[j].created_at]_vars

\* An edit that changed a note written at an earlier instant.
C15_Witness ==
  /\ last.op = "edit" /\ last.target # {}
  /\ \E i \in last.target :
       /\ i \in Ids
       /\ notes[i].created_at < notes[i].updated_at
       /\ notes[i].created_at < clock

\* The fields of a row that neither flag operation may touch.
Text(row) == <<row.title, row.content, tags_of(row.tags_csv)>>

\* C16: pin sets pinned and leaves archived; archive, restore and soft
\* delete set archived (restore to FALSE, soft delete to TRUE) and leave
\* pinned; title, content and tags are unchanged in each case.  (A call
\* records its identifier, its flag and the row it resolved in last.)
C16_FlagsIndependent ==
  [][\A id \in last'.target \cap DOMAIN notes :
       LET i == last'.ident
           v == last'.flag
           old == notes[id]
           new == notes'[id] IN
       /\ (last'.op = "pin" /\ pin_note(i, v)) =>
             /\ new.pinned = v
             /\ new.archived = old.archived
             /\ Text(new) = Text(old)
       /\ (last'.op = "archive" /\ archive_note(i, v)) =>
             /\ new.archived = v
             /\ new.pinned = old.pinned
             /\ Text(new) = Text(old)
       /\ (last'.op = "restore" /\ restore_note(i)) =>
             /\ ~new.archived
             /\ new.pinned = old.pinned
             /\ Text(new) = Text(old)
       /\ (last'.op = "delete" /\ delete_note(i, FALSE)) =>
             /\ new.archived
             /\ new.pinned = old.pinned
             /\ Text(new) = Text(old)]_vars

\* A restore of a pinned note.
C16_Witness ==
  /\ last.op = "restore" /\ last.target # {}
  /\ \E i \in last.target : i \in Ids /\ notes[i].pinned /\ ~notes[i].archived

(***************************************************************************)
(* Tag normalization as a function (SpecNorm): a tag list is drawn, and    *)
(* _normal_tags is applied to it and then to its own result, as in         *)
(* note.set_tags(_normal_tags(tags)).                                      *)
(***************************************************************************)
MaxTags == 2

\* Tag strings: empty, blank, padded, upper-case, duplicate up to case and
\* padding, and one holding a comma.
TagPool ==
  { << >>, <<" ">>, <<"a">>, <<"A">>, <<" ", "a", " ">>, <<"b">>,
    <<"B", " ">>, <<"b", ",", "a">> }

TagLists == UNION {[1..n -> TagPool] : n \in 0..MaxTags}

InitNorm ==
  /\ notes = << >>
  /\ clock = 0
  /\ export_file = {}
  /\ sessions = [c \in Clients |-> Idle]
  /\ last \in {[op |-> "tags", tags |-> g] : g \in TagLists}

normalize ==
  /\ last.op = "tags"
  /\ last' = [op |-> "normal", tags |-> last.tags,
              out |-> _normal_tags({last.tags}),
              again |-> _normal_tags({_normal_tags({last.tags})})]
  /\ UNCHANGED <<notes, clock, export_file, sessions>>

NextNorm == normalize

SpecNorm == InitNorm /\ [][NextNorm]_vars

\* C17: normalizing a normalized tag list gives the same list, and the
\* result of normalizing has no duplicates, no empty or whitespace-only
\* entries, only lower-case entries, and is sorted.
C17_NormalizeIdempotent ==
  last.op = "normal" =>
    /\ last.again = last.out
    /\ Normalized(last.out)
    /\ \A i, j \in 1..Len(last.out) : i # j => last.out[i] # last.out[j]

\* Two tags that differ in case and padding only, beside a blank one.
C17_Witness ==
  /\ last.op = "normal"
  /\ last.tags = << <<"A">>, <<" ", "a", " ">> >>
  /\ last.out = << <<"a">> >>

(***************************************************************************)
(* Link extraction (SpecExtract): notes titled "B" whose content holds the *)
(* marker with and without padding inside the brackets.                    *)
(***************************************************************************)
\* The captures of BACKLINK_RE.finditer(s) from position p on: "[[", then
\* the longest run of one or more characters other than "]", then "]]";
\* the scan resumes after a match, and one character on where none starts.
RECURSIVE finditer(_, _)
finditer(s, p) ==
  IF p + 1 > Len(s) THEN {}
  ELSE LET stops == {k \in (p + 2)..Len(s) : s[k] = "]"}
           e == IF stops = {} THEN 0
                ELSE CHOOSE k \in stops : \A m \in stops : k <= m
       IN  IF /\ s[p] = "[" /\ s[p + 1] = "["
              /\ e > p + 2
              /\ e + 1 <= Len(s) /\ s[e + 1] = "]"
           THEN {SubSeq(s, p + 2, e - 1)} \cup finditer(s, e + 2)
           ELSE finditer(s, p + 1)

extract_links(content) ==
  IF content = << >> THEN << >>
  ELSE sorted({strip(m) : m \in finditer(content, 1)})

EnvExtract ==
  [titles        |-> {<<"B">>},
   contents      |-> {<<"[", "[", "B", "]", "]">>,
                      <<"[", "[", " ", "B", " ", "]", "]">>},
   taglists      |-> {{}},
   idents        |-> {IntId(1), IntId(2)},
   edit_titles   |-> {{}},
   edit_contents |-> {{}},
   edit_taglists |-> {{}},
   edit_flags    |-> {{}}]

NextExtract == Service(EnvExtract)

SpecExtract == Init /\ [][NextExtract]_vars

\* C20: for the note T a backlinks call by id resolved and every stored
\* non-archived note X: if T's title is among the links extracted from X's
\* content then X is in the call's result, and if X is in the result then
\* T's trimmed title is among the links extracted from X's content.
C20_LinksAgree ==
  (last.op = "backlinks" /\ Numeric(last.ident)
                         /\ last.target = {int(last.ident)}) =>
    \A T \in last.target \cap Ids :
      \A X \in {i \in Ids : ~notes[i].archived} :
        LET links == Range(extract_links(notes[X].content)) IN
        /\ notes[T].title \in links => X \in last.out
        /\ X \in last.out => strip(notes[T].title) \in links

(***************************************************************************)
(* Concurrent clients (SpecConc).  edit_note, delete_note, pin_note and    *)
(* archive_note call get_note, which reads the row in a session of its own *)
(* and returns it detached, and then s.merge(note) in their own session:   *)
(* two transactions, so another client's commit can fall between them.     *)
(***************************************************************************)
\* A call in flight: the operation with its arguments; pin, archive,
\* restore and soft delete are assignments to one flag.
Request(op, hard, title, content, tags, archived, pinned) ==
  [op |-> op, hard |-> hard, title |-> title, content |-> content,
   tags |-> tags, archived |-> archived, pinned |-> pinned]

\* The flag a call records in last.
FlagOf(r) ==
  IF r.op \in {"delete", "purge"} THEN r.hard
  ELSE IF r.op = "pin" THEN Val(r.pinned)
  ELSE IF r.op \in {"archive", "restore"} THEN Val(r.archived)
  ELSE FALSE

\* The first half of a call: note = get_note(identifier).  Nothing found
\* ends the call (delete_note returns, the others raise ValueError);
\* otherwise the client holds the detached row.
resolve(c, r, identifier) ==
  /\ sessions[c].pc = "idle"
  /\ \E found \in Found(notes, identifier) :
       IF found = {}
       THEN /\ last' = Call(r.op, identifier, FlagOf(r), {},
                            IF r.op \in {"delete", "purge"} THEN ""
                            ELSE "ValueError", {})
            /\ UNCHANGED sessions
       ELSE /\ sessions' = [sessions EXCEPT ![c] =
                 [pc |-> "resolved", req |-> r, ident |-> identifier,
                  id |-> Val(found), row |-> notes[Val(found)]]]
            /\ UNCHANGED last
  /\ UNCHANGED <<notes, clock, export_file>>

\* s.merge(note) and the flush: merge loads the row with the detached
\* note's primary key, or makes a new pending row when there is none, and
\* copies every attribute of the detached note onto it; the flush then
\* updates, or inserts, the row.
merged(store, id, row) ==
  [i \in DOMAIN store \cup {id} |-> IF i = id THEN row ELSE store[i]]

\* The second half of a call: merge, the call's assignments, commit.
\* s.delete of a row merge had to make anew raises InvalidRequestError and
\* the session rolls back.
write(c) ==
  /\ sessions[c].pc = "resolved"
  /\ LET m == sessions[c]
         r == m.req
     IN  IF r.hard
         THEN IF m.id \in DOMAIN notes
              THEN /\ notes' = Deleted(notes, m.id, TRUE, clock)
                   /\ last' = Call(r.op, m.ident, TRUE, {m.id}, "", {})
              ELSE /\ notes' = notes
                   /\ last' = Call(r.op, m.ident, TRUE, {m.id},
                                   "InvalidRequestError", {})
         ELSE /\ notes' = merged(notes, m.id,
                    Edited(m.row, r.title, r.content, r.tags, r.archived,
                           r.pinned, clock))
              /\ last' = Call(r.op, m.ident, FlagOf(r), {m.id}, "",
                              IF r.op = "delete" THEN {} ELSE {m.id})
  /\ sessions' = [sessions EXCEPT ![c] = Idle]
  /\ UNCHANGED <<clock, export_file>>

EnvConc ==
  [titles   |-> {<<"B">>},
   contents |-> {<< >>},
   taglists |-> {{}},
   idents   |-> {IntId(1)},
   requests |->
     { Request("edit", FALSE, {<<"b">>}, {}, {}, {}, {}),
       Request("edit", FALSE, {}, {<<"a">>}, {}, {}, {}),
       Request("pin", FALSE, {}, {}, {}, {}, {TRUE}),
       Request("archive", FALSE, {}, {}, {}, {TRUE}, {}),
       Request("restore", FALSE, {}, {}, {}, {FALSE}, {}),
       Request("delete", FALSE, {}, {}, {}, {TRUE}, {}),
       Request("purge", TRUE, {}, {}, {}, {}, {}) }]

NextConc ==
  \/ Tick
  \/ \E t \in EnvConc.titles, c \in EnvConc.contents,
        g \in EnvConc.taglists : create_note(t, c, g)
  \/ \E c \in Clients, r \in EnvConc.requests, i \in EnvConc.idents :
        resolve(c, r, i)
  \/ \E c \in Clients : write(c)

SpecConc == Init /\ [][NextConc]_vars

\* The attributes a call was asked to change.
Asked(r) ==
  {a \in {"title", "content", "tags", "archived", "pinned"} :
     ~IsNone(r[a])}

\* The attribute a of a row.
Attr(row, a) == IF a = "tags" THEN row.tags_csv ELSE row[a]

\* C18: under any interleaving of two clients, the write of an edit, pin,
\* archive, restore or soft delete leaves every attribute of its note that
\* the call was not asked to change as the store held it just before.
C18_WritesOnlyAsked ==
  [][\A c \in Clients :
       (sessions[c].pc = "resolved" /\ write(c)) =>
         LET m == sessions[c] IN
         (~m.req.hard /\ m.id \in DOMAIN notes) =>
           \A a \in {"title", "content", "tags", "archived", "pinned"}
                      \ Asked(m.req) :
             Attr(notes'[m.id], a) = Attr(notes[m.id], a)]_vars

\* C19: under any interleaving of concurrent clients, create is the only
\* operation that adds a row: a write of an edit, pin, archive, restore or
\* delete never brings back a row a purge removed.
C19_OnlyCreateAddsRows ==
  [][\A c \in Clients :
       (sessions[c].pc = "resolved" /\ write(c)) =>
          DOMAIN notes' \subseteq DOMAIN notes]_vars

(***************************************************************************)
(* Ids over time (SpecIds): the id create assigns after a row was removed. *)
(***************************************************************************)
\* The last call removed a row: a purge or hard delete that resolved a
\* note, whose id was therefore assigned by an earlier create.
RemovedRow ==
  /\ last.op \in {"delete", "purge"}
  /\ last.flag
  /\ last.target # {}
  /\ last.target \cap Ids = {}

\* C21: an id is never reused: the id create assigns differs from every id
\* assigned before, in particular from the id of the note a purge or hard
\* delete has just removed, so that id never comes to denote another note.
C21_IdNeverReused ==
  [][RemovedRow =>
       \A t \in EnvIds.titles, c \in EnvIds.contents, g \in EnvIds.taglists :
         create_note(t, c, g) => last'.target # last.target]_vars

====
